---- MODULE Spec2Model ----
(***************************************************************************)
(* Model of invoice_search_jp/cli.py: the dataset synchronisation engine.  *)
(*                                                                         *)
(* Dates are day numbers.  A JSON string value of the metadata file is a   *)
(* record [fmt, day]: fmt tells which ISO form the text has ("date" is     *)
(* YYYY-MM-DD, "datetime" an ISO-8601 timestamp, "text" anything else),    *)
(* day the calendar day it denotes; "nokey" marks a key that is missing.   *)
(* A file on disk is a record [kind, rows]: kind "none" (no file), "table" *)
(* (a complete parquet artifact holding rows) or "partial" (a file whose   *)
(* write did not finish).                                                  *)
(***************************************************************************)
EXTENDS Integers, Sequences, FiniteSets, TLC

VARIABLES
    parquet,           \* the file at PARQUET_FILE
    tmp,               \* the file at PARQUET_FILE.tmp
    metadata,          \* the file at METADATA_FILE
    today,             \* date.today()
    catalog,           \* rows of the remote diff listing page, in page order
    pc,                \* position of the running command
    cmd,               \* the running command: "none", "init", "update"
    strategy,          \* update_data: strategy
    date_list,         \* update_data: date_list
    diff_file_list,    \* update_data: diff_file_list
    downloaded_files,  \* update_data: downloaded_files, each with its date
    csv_files,         \* init_data: csv_files
    idx,               \* number of loop iterations done
    current,           \* merge_diff_data: TEMP TABLE current
    diff,              \* merge_diff_data: TEMP TABLE diff
    merge_result,      \* what merge_diff_data returned
    result,            \* what the command returned
    listing,           \* determine_update_strategy: diff_list
    fetches,           \* diff listing fetches made by the selector
    parquet0,          \* PARQUET_FILE when the command started
    metadata0,         \* METADATA_FILE when the command started
    argv,              \* main: the arguments of a search or lookup command
    shown              \* what a search, lookup or status command wrote

vars == <<parquet, tmp, metadata, today, catalog, pc, cmd, strategy,
          date_list, diff_file_list, downloaded_files, csv_files, idx,
          current, diff, merge_result, result, listing, fetches, parquet0,
          metadata0, argv, shown>>

----------------------------------------------------------------------------
(* Bounds *)

\* last day number of the clock and of the diff listing in the system model
MaxDay == 2
\* last day number of the diff listing in the strategy model
StratMaxDay == 43
\* last day number a metadata date holds in the strategy model
StratMaxBase == 1
\* first days a listing of the strategy model may start at: 0..StratMaxLo
StratMaxLo == 2
\* the strategy model takes today and the last day of a listing among the
\* first days 0..StratMaxLo+1 and the last days StratMaxDay-StratSpan..StratMaxDay
StratSpan == 3

\* registration numbers 1..MaxNum and field values 1..MaxVal of the merge model
MaxNum == 2
MaxVal == 2
\* rows of a snapshot the merge model starts from
MaxSnapRows == 2
\* diff files of one run in the merge model
MaxBatch == 2
\* the diff chain ceiling of determine_update_strategy
MAX_DIFF_DATES == 40

----------------------------------------------------------------------------
(* Files *)

NoFile == [kind |-> "none", rows |-> <<>>]
Table(rows) == [kind |-> "table", rows |-> rows]
PartialFile == [kind |-> "partial", rows |-> <<>>]

\* Path.exists()
exists(f) == f.kind # "none"

----------------------------------------------------------------------------
(* Metadata *)

NoKey == [fmt |-> "nokey", day |-> 0]
IsoDate(d) == [fmt |-> "date", day |-> d]
IsoDateTime(d) == [fmt |-> "datetime", day |-> d]
Text == [fmt |-> "text", day |-> 0]

EmptyDict == [full_update_date |-> NoKey, last_diff_date |-> NoKey,
              data_as_of |-> NoKey, version |-> NoKey]

\* the metadata file: absent, not valid JSON, or a JSON object
NoMetadata == [file |-> "absent", dict |-> EmptyDict]
CorruptMetadata == [file |-> "corrupt", dict |-> EmptyDict]
JsonMetadata(d) == [file |-> "json", dict |-> d]

\* key in dict
Has(d, k) == d[k].fmt # "nokey"

\* bool(dict)
Truthy(d) == \E k \in DOMAIN d : Has(d, k)

load_metadata(m) == IF m.file = "json" THEN m.dict ELSE EmptyDict

\* date.fromisoformat: only the YYYY-MM-DD form parses
date_fromisoformat(v) ==
    IF v.fmt = "date" THEN [ok |-> TRUE, day |-> v.day]
                      ELSE [ok |-> FALSE, day |-> 0]

\* datetime.fromisoformat(...).date(): a timestamp or a bare date parses
datetime_fromisoformat_date(v) ==
    IF v.fmt \in {"date", "datetime"} THEN [ok |-> TRUE, day |-> v.day]
                                      ELSE [ok |-> FALSE, day |-> 0]

----------------------------------------------------------------------------
(* Remote diff listing *)

\* the management number the listing gives the diff file of day d
FileId(d) == 4400 + d

Entry(d) == [date |-> d, file_id |-> FileId(d)]

RECURSIVE SortDesc(_)
\* result.sort(key=lambda x: x[0], reverse=True): a stable sort by date
\* descending (rows of one date keep their order), computed around the
\* middle row
SortDesc(s) ==
    IF Len(s) <= 1 THEN s
    ELSE LET mid == (Len(s) + 1) \div 2
             p == s[mid].date
             front == SubSeq(s, 1, mid - 1)
             back == SubSeq(s, mid + 1, Len(s))
             later(x) == x.date > p
             notEarlier(x) == x.date >= p
             earlier(x) == x.date < p
             notLater(x) == x.date <= p
         IN  SortDesc(SelectSeq(front, notEarlier) \o SelectSeq(back, later))
             \o <<s[mid]>>
             \o SortDesc(SelectSeq(front, earlier) \o SelectSeq(back, notLater))

RECURSIVE SortAsc(_)
\* dates_to_apply.sort(): a stable sort, ascending, computed around the
\* middle element
SortAsc(s) ==
    IF Len(s) <= 1 THEN s
    ELSE LET mid == (Len(s) + 1) \div 2
             p == s[mid]
             front == SubSeq(s, 1, mid - 1)
             back == SubSeq(s, mid + 1, Len(s))
             less(x) == x < p
             notGreater(x) == x <= p
             greater(x) == x > p
             notLess(x) == x >= p
         IN  SortAsc(SelectSeq(front, notGreater) \o SelectSeq(back, less))
             \o <<p>>
             \o SortAsc(SelectSeq(front, greater) \o SelectSeq(back, notLess))

\* fetch_sabun_file_list: the rows of the listing page sorted by date
\* descending, or [] when the fetch or the parse raises
fetch_sabun_file_list(page, ok) == IF ok THEN SortDesc(page) ELSE <<>>

----------------------------------------------------------------------------
(* Update Strategy Selector *)

\* what the selector returns, with the listing it fetched (diff_list) and
\* the number of listing fetches it made
Decision(s, dates, list, n) ==
    [strategy |-> s, date_list |-> dates, diff_list |-> list, fetches |-> n]

Full(list, n) == Decision("full", <<>>, list, n)
Skip(list, n) == Decision("skip", <<>>, list, n)

\* the loop over diff_list: keeps diff_date with next_date <= diff_date <= today
DatesToApply_from_baseline(diff_list, next_date, now) ==
    LET applies(e) == next_date - 1 <= e.date /\ e.date <= now
        kept == SelectSeq(diff_list, applies)
    IN  [i \in 1..Len(kept) |-> kept[i].date]

DatesToApply(diff_list, next_date, now) ==
    LET applies(e) == next_date <= e.date /\ e.date <= now
        kept == SelectSeq(diff_list, applies)
    IN  [i \in 1..Len(kept) |-> kept[i].date]

ExceedsCeiling_at_ceiling(n) == n >= MAX_DIFF_DATES

\* len(dates_to_apply) > 40
ExceedsCeiling(n) == n > MAX_DIFF_DATES

StrategyFrom_rebuild_when_nothing(last_date, page, ok, now) ==
    LET diff_list == fetch_sabun_file_list(page, ok)
        dates_to_apply == SortAsc(DatesToApply(diff_list, last_date + 1, now))
    IN  IF diff_list = <<>> THEN Full(diff_list, 1)
        ELSE IF dates_to_apply = <<>> THEN Full(diff_list, 1)
        ELSE IF ExceedsCeiling(Len(dates_to_apply)) THEN Full(diff_list, 1)
        ELSE Decision("diff", dates_to_apply, diff_list, 1)

\* the part of determine_update_strategy after last_date is known
StrategyFrom(last_date, page, ok, now) ==
    LET diff_list == fetch_sabun_file_list(page, ok)
        dates_to_apply == SortAsc(DatesToApply(diff_list, last_date + 1, now))
    IN  IF diff_list = <<>> THEN Skip(diff_list, 1)
        ELSE IF dates_to_apply = <<>> THEN Skip(diff_list, 1)
        ELSE IF ExceedsCeiling(Len(dates_to_apply)) THEN Full(diff_list, 1)
        ELSE Decision("diff", dates_to_apply, diff_list, 1)

StrategyWithSnapshot_full_update_date_first(m, page, ok, now) ==
    LET md == load_metadata(m) IN
    IF Has(md, "full_update_date")
    THEN LET p == datetime_fromisoformat_date(md.full_update_date) IN
         IF p.ok THEN StrategyFrom(p.day, page, ok, now) ELSE Full(<<>>, 0)
    ELSE IF Has(md, "last_diff_date")
    THEN LET p == date_fromisoformat(md.last_diff_date) IN
         IF p.ok THEN StrategyFrom(p.day, page, ok, now) ELSE Full(<<>>, 0)
    ELSE Full(<<>>, 0)

\* determine_update_strategy once PARQUET_FILE is known to exist
StrategyWithSnapshot(m, page, ok, now) ==
    LET md == load_metadata(m) IN
    IF ~Truthy(md) \/ ~Has(md, "last_diff_date")
    THEN IF Has(md, "full_update_date")
         THEN LET p == datetime_fromisoformat_date(md.full_update_date) IN
              IF p.ok THEN StrategyFrom(p.day, page, ok, now) ELSE Full(<<>>, 0)
         ELSE Full(<<>>, 0)
    ELSE LET p == date_fromisoformat(md.last_diff_date) IN
         IF p.ok THEN StrategyFrom(p.day, page, ok, now) ELSE Full(<<>>, 0)

determine_update_strategy_metadata_first(pq, m, page, ok, now) ==
    StrategyWithSnapshot(m, page, ok, now)

determine_update_strategy(pq, m, page, ok, now) ==
    IF ~exists(pq) THEN Full(<<>>, 0)
    ELSE StrategyWithSnapshot(m, page, ok, now)

----------------------------------------------------------------------------
(* Registry rows and tables *)

\* process codes: "01"/"11" insert or replace, "21" remove, "99" any other
Procs == {"01", "11", "21", "99"}

Row(n, p, v) == [registratedNumber |-> n, process |-> p, val |-> v]

Rows(maxNum, maxVal) ==
    {Row(n, p, v) : n \in 1..maxNum, p \in Procs, v \in 1..maxVal}

\* the payloads of one CSV file: at most one row
Payloads(rows) == {<<>>} \cup {<<r>> : r \in rows}

Numbers(t) == {t[i].registratedNumber : i \in 1..Len(t)}

\* SELECT registratedNumber FROM t WHERE process IN procs
NumbersWhere(t, procs) ==
    {t[i].registratedNumber : i \in {j \in 1..Len(t) : t[j].process \in procs}}

\* DELETE FROM t WHERE registratedNumber IN nums
DeleteIn(t, nums) ==
    LET keep(r) == r.registratedNumber \notin nums IN SelectSeq(t, keep)

\* SELECT * FROM t WHERE process IN procs
SelectProcess(t, procs) ==
    LET pick(r) == r.process \in procs IN SelectSeq(t, pick)

RECURSIVE read_csv(_)
\* read_csv([paths]): the rows of the files, in list order
read_csv(files) ==
    IF files = <<>> THEN <<>> ELSE Head(files).rows \o read_csv(Tail(files))

CountOf(t, n) == Cardinality({i \in 1..Len(t) : t[i].registratedNumber = n})

----------------------------------------------------------------------------
(* Inputs of the system model *)

Days == 0..MaxDay

\* the system model follows one registry entry: its row in the full dataset
\* files, and the diff rows that insert or replace it and that remove it
FullRows == {Row(1, "01", 1)}
DiffRows == {Row(1, "01", 1), Row(1, "21", 1)}

\* five split files of the full dataset (CORPORATE_FILE_IDS, len(matches) == 5)
NUM_FULL_FILES == 5

\* save_metadata: written, or the exception is swallowed with the file left
\* as it was (mkdir/open raised) or truncated (json.dump raised)
SaveOutcomes == {"written", "kept", "truncated"}

save_metadata(old, data, outcome) ==
    CASE outcome = "written" -> JsonMetadata(data)
      [] outcome = "kept" -> old
      [] outcome = "truncated" -> CorruptMetadata

----------------------------------------------------------------------------
(* Arguments and output of the query commands *)

\* sys.argv of a search or lookup command after main has read it: given
\* tells whether sys.argv[2] is there, options whether every option is known
\* and every number parses
Args(given, query, number, limit, page, output_format, options) ==
    [given |-> given, query |-> query, number |-> number, limit |-> limit,
     page |-> page, output_format |-> output_format, options |-> options]

\* no search or lookup command has run
NoArgs == Args(FALSE, 0, <<>>, 0, 0, "none", TRUE)

\* what a command wrote: the kind of message or listing, the records, the
\* page count it printed and the registration number it queried
Shown(kind, rows, total_pages, key) ==
    [kind |-> kind, rows |-> rows, total_pages |-> total_pages, key |-> key]

Nothing == Shown("nothing", <<>>, 0, <<>>)

Query == <<argv, shown>>

----------------------------------------------------------------------------
(* Commands *)

Locals == <<strategy, date_list, diff_file_list, downloaded_files, csv_files,
            idx, current, diff, merge_result, listing, fetches>>
Files == <<parquet, tmp, metadata>>
Env == <<today, catalog>>
History == <<parquet0, metadata0>>

ClearLocals ==
    /\ strategy' = "none"
    /\ date_list' = <<>>
    /\ diff_file_list' = <<>>
    /\ downloaded_files' = <<>>
    /\ csv_files' = <<>>
    /\ idx' = 0
    /\ current' = <<>>
    /\ diff' = <<>>
    /\ merge_result' = "none"
    /\ listing' = <<>>
    /\ fetches' = 0

\* the command returns r
Return(r) ==
    /\ pc' = "done"
    /\ result' = r

\* main: "init"
InitCommand ==
    /\ pc = "idle"
    /\ cmd' = "init"
    /\ pc' = "init_download"
    /\ result' = "none"
    /\ parquet0' = parquet
    /\ metadata0' = metadata
    /\ ClearLocals
    /\ UNCHANGED <<Query, Files, Env>>

\* main: "update [--full]"; update_data up to the dispatch on the strategy
UpdateCommand(force_full, ok) ==
    /\ pc = "idle"
    /\ cmd' = "update"
    /\ parquet0' = parquet
    /\ metadata0' = metadata
    /\ diff_file_list' = <<>>
    /\ downloaded_files' = <<>>
    /\ csv_files' = <<>>
    /\ idx' = 0
    /\ current' = <<>>
    /\ diff' = <<>>
    /\ merge_result' = "none"
    /\ IF force_full
       THEN /\ strategy' = "none"
            /\ date_list' = <<>>
            /\ listing' = <<>>
            /\ fetches' = 0
            /\ pc' = "init_download"
            /\ result' = "none"
       ELSE LET dec == determine_update_strategy(parquet, metadata, catalog,
                                                 ok, today)
            IN  /\ strategy' = dec.strategy
                /\ date_list' = dec.date_list
                /\ listing' = dec.diff_list
                /\ fetches' = dec.fetches
                /\ CASE dec.strategy = "full" ->
                          pc' = "init_download" /\ result' = "none"
                     [] dec.strategy = "skip" -> Return("true")
                     [] dec.strategy = "diff" ->
                          pc' = "update_fetch" /\ result' = "none"
    /\ UNCHANGED <<Query, Files, Env>>

----------------------------------------------------------------------------
(* init_data *)

\* day of the month of a day number: day 0 is the 31st of a month of 31
\* days, day 1 the first day of the next month
DayOfMonth(d) == IF d = 0 THEN 31 ELSE d

\* first_of_month - timedelta(days=1)
DataAsOf(d) == (d - DayOfMonth(d) + 1) - 1

FreshMetadata_data_as_of_as_baseline(now) ==
    [full_update_date |-> IsoDateTime(DataAsOf(now)), last_diff_date |-> NoKey,
     data_as_of |-> IsoDate(DataAsOf(now)), version |-> Text]

FreshMetadata(now) ==
    [full_update_date |-> IsoDateTime(now), last_diff_date |-> NoKey,
     data_as_of |-> IsoDate(DataAsOf(now)), version |-> Text]

CsvFile(rows) == [date |-> 0, rows |-> rows]

\* one iteration of the download loop: download_and_extract_csv gives a path
\* or None; the split files partition the registration numbers
InitDownload ==
    /\ pc = "init_download"
    /\ idx < NUM_FULL_FILES
    /\ idx' = idx + 1
    /\ \/ UNCHANGED csv_files
       \/ \E p \in Payloads(FullRows) :
            /\ Numbers(p) \cap Numbers(read_csv(csv_files)) = {}
            /\ csv_files' = Append(csv_files, CsvFile(p))
    /\ UNCHANGED <<Query, Files, Env, History, pc, cmd, result, strategy, date_list,
                   diff_file_list, downloaded_files, current, diff,
                   merge_result, listing, fetches>>

\* after the loop: if not csv_files: return False
InitCheck ==
    /\ pc = "init_download"
    /\ idx = NUM_FULL_FILES
    /\ IF csv_files = <<>>
       THEN Return("false")
       ELSE pc' = "init_copy" /\ result' = result
    /\ UNCHANGED <<Query, Files, Env, History, cmd, Locals>>

\* COPY (SELECT * FROM read_csv([...])) TO PARQUET_FILE: the statement writes
\* the file at the canonical path itself; when it raises, the file is as it
\* was (raised before the file was opened) or half written
InitCopy ==
    /\ pc = "init_copy"
    /\ \/ /\ parquet' = Table(read_csv(csv_files))
          /\ pc' = "init_meta"
          /\ result' = result
       \/ /\ parquet' \in {parquet, PartialFile}
          /\ Return("false")
    /\ UNCHANGED <<Query, tmp, metadata, Env, History, cmd, Locals>>

\* csv_file.unlink(), the size report, save_metadata(metadata), return True;
\* an exception before save_metadata reaches the except clause
InitMeta ==
    /\ pc = "init_meta"
    /\ \/ \E o \in SaveOutcomes :
            /\ metadata' = save_metadata(metadata, FreshMetadata(today), o)
            /\ Return("true")
       \/ /\ metadata' = metadata
          /\ Return("false")
    /\ UNCHANGED <<Query, parquet, tmp, Env, History, cmd, Locals>>

----------------------------------------------------------------------------
(* update_data, diff path *)

\* file id None
None == 0

\* {d: fid for d, fid in diff_file_list}.get(d): the last pair of a date wins
date_to_file_id_get(list, d) ==
    LET at == {i \in 1..Len(list) : list[i].date = d}
    IN  IF at = {} THEN None
        ELSE list[CHOOSE i \in at : \A j \in at : j <= i].file_id

\* diff_file_list = fetch_sabun_file_list()
UpdateFetch ==
    /\ pc = "update_fetch"
    /\ \E ok \in BOOLEAN : diff_file_list' = fetch_sabun_file_list(catalog, ok)
    /\ pc' = "update_download"
    /\ UNCHANGED <<Query, Files, Env, History, cmd, result, strategy, date_list,
                   downloaded_files, csv_files, idx, current, diff,
                   merge_result, listing, fetches>>

\* one iteration of the loop over date_list: download_diff_file gives a path
\* or None
UpdateDownload ==
    /\ pc = "update_download"
    /\ idx < Len(date_list)
    /\ idx' = idx + 1
    /\ LET diff_date == date_list[idx + 1]
           file_id == date_to_file_id_get(diff_file_list, diff_date)
       IN  IF file_id # None
           THEN \/ UNCHANGED downloaded_files
                \/ \E p \in Payloads(DiffRows) :
                     downloaded_files' =
                         Append(downloaded_files, [date |-> diff_date, rows |-> p])
           ELSE UNCHANGED downloaded_files
    /\ UNCHANGED <<Query, Files, Env, History, pc, cmd, result, strategy, date_list,
                   diff_file_list, csv_files, current, diff, merge_result,
                   listing, fetches>>

UpdateCheck_all_required ==
    /\ pc = "update_download"
    /\ idx = Len(date_list)
    /\ IF Len(downloaded_files) < Len(date_list)
       THEN Return("false")
       ELSE pc' = "merge_exists" /\ result' = result
    /\ UNCHANGED <<Query, Files, Env, History, cmd, Locals>>

\* after the loop: if not downloaded_files: return False
UpdateCheck ==
    /\ pc = "update_download"
    /\ idx = Len(date_list)
    /\ IF downloaded_files = <<>>
       THEN Return("false")
       ELSE pc' = "merge_exists" /\ result' = result
    /\ UNCHANGED <<Query, Files, Env, History, cmd, Locals>>

\* after merge_diff_data returned True: unlink the payloads, set
\* last_diff_date = date_list[-1] in the loaded metadata, save, return True
UpdateFinish ==
    /\ pc = "update_finish"
    /\ LET md == [load_metadata(metadata) EXCEPT
                    !.last_diff_date = IsoDate(date_list[Len(date_list)])]
       IN  \E o \in SaveOutcomes : metadata' = save_metadata(metadata, md, o)
    /\ Return("true")
    /\ UNCHANGED <<Query, parquet, tmp, Env, History, cmd, Locals>>

----------------------------------------------------------------------------
(* merge_diff_data *)

DeleteRemoved_first_match_only(cur, d) ==
    LET hits == {i \in 1..Len(cur) :
                    cur[i].registratedNumber \in NumbersWhere(d, {"21"})}
    IN  IF hits = {} THEN cur
        ELSE LET k == CHOOSE i \in hits : \A j \in hits : i <= j
             IN  SubSeq(cur, 1, k - 1) \o SubSeq(cur, k + 1, Len(cur))

\* DELETE FROM current WHERE registratedNumber IN
\*   (SELECT registratedNumber FROM diff WHERE process = '21')
DeleteRemoved(cur, d) == DeleteIn(cur, NumbersWhere(d, {"21"}))

DeleteReplaced_keeps_old(cur, d) == cur

\* DELETE FROM current WHERE registratedNumber IN
\*   (SELECT registratedNumber FROM diff WHERE process IN ('01', '11'))
DeleteReplaced(cur, d) == DeleteIn(cur, NumbersWhere(d, {"01", "11"}))

InsertUpserts_first_row_only(cur, d) ==
    LET rows == SelectProcess(d, {"01", "11"})
    IN  IF rows = <<>> THEN cur ELSE Append(cur, Head(rows))

\* INSERT INTO current SELECT * FROM diff WHERE process IN ('01', '11')
InsertUpserts(cur, d) == cur \o SelectProcess(d, {"01", "11"})

\* merge_diff_data from the load of the tables to the rows it writes
MergeRows(cur, files) ==
    LET d == read_csv(files)
    IN  InsertUpserts(DeleteReplaced(DeleteRemoved(cur, d), d), d)

MergeFrame == <<Env, History, cmd, strategy, date_list, diff_file_list,
                downloaded_files, csv_files, idx, listing, fetches>>

\* the except clause: merge_diff_data returns False, update_data returns False
MergeRaises ==
    /\ merge_result' = "false"
    /\ Return("false")

MergeStep(next) ==
    /\ pc' = next
    /\ UNCHANGED <<merge_result, result>>

\* if not PARQUET_FILE.exists(): return False
MergeExists ==
    /\ pc = "merge_exists"
    /\ IF exists(parquet) THEN MergeStep("merge_current") ELSE MergeRaises
    /\ UNCHANGED <<Query, Files, current, diff, MergeFrame>>

\* CREATE TEMP TABLE current AS SELECT * FROM PARQUET_FILE
MergeLoadCurrent ==
    /\ pc = "merge_current"
    /\ \/ /\ parquet.kind = "table"
          /\ current' = parquet.rows
          /\ MergeStep("merge_diff")
       \/ /\ current' = current
          /\ MergeRaises
    /\ UNCHANGED <<Query, Files, diff, MergeFrame>>

\* CREATE TEMP TABLE diff AS SELECT * FROM read_csv([diff_csv_paths])
MergeLoadDiff ==
    /\ pc = "merge_diff"
    /\ \/ /\ diff' = read_csv(downloaded_files)
          /\ MergeStep("merge_delete_removed")
       \/ /\ diff' = diff
          /\ MergeRaises
    /\ UNCHANGED <<Query, Files, current, MergeFrame>>

MergeDeleteRemoved ==
    /\ pc = "merge_delete_removed"
    /\ \/ /\ current' = DeleteRemoved(current, diff)
          /\ MergeStep("merge_delete_replaced")
       \/ /\ current' = current
          /\ MergeRaises
    /\ UNCHANGED <<Query, Files, diff, MergeFrame>>

MergeDeleteReplaced ==
    /\ pc = "merge_delete_replaced"
    /\ \/ /\ current' = DeleteReplaced(current, diff)
          /\ MergeStep("merge_insert")
       \/ /\ current' = current
          /\ MergeRaises
    /\ UNCHANGED <<Query, Files, diff, MergeFrame>>

MergeInsert ==
    /\ pc = "merge_insert"
    /\ \/ /\ current' = InsertUpserts(current, diff)
          /\ MergeStep("merge_copy")
       \/ /\ current' = current
          /\ MergeRaises
    /\ UNCHANGED <<Query, Files, diff, MergeFrame>>

CopyTarget_canonical == "parquet"

\* the path COPY current TO writes: PARQUET_FILE.name + ".tmp"
CopyTarget == "tmp"

\* COPY current TO temp_parquet; when it raises, the temporary file is as it
\* was or half written
MergeCopy ==
    /\ pc = "merge_copy"
    /\ \/ /\ IF CopyTarget = "tmp"
             THEN tmp' = Table(current) /\ parquet' = parquet
             ELSE parquet' = Table(current) /\ tmp' = tmp
          /\ MergeStep("merge_rename")
       \/ /\ IF CopyTarget = "tmp"
             THEN tmp' \in {tmp, PartialFile} /\ parquet' = parquet
             ELSE parquet' \in {parquet, PartialFile} /\ tmp' = tmp
          /\ MergeRaises
    /\ UNCHANGED <<Query, metadata, current, diff, MergeFrame>>

\* temp_parquet.rename(PARQUET_FILE); return True
MergeRename ==
    /\ pc = "merge_rename"
    /\ \/ /\ exists(tmp)
          /\ parquet' = tmp
          /\ tmp' = NoFile
          /\ merge_result' = "true"
          /\ pc' = "update_finish"
          /\ result' = result
       \/ /\ UNCHANGED <<parquet, tmp>>
          /\ MergeRaises
    /\ UNCHANGED <<Query, metadata, current, diff, MergeFrame>>

InMerge == pc \in {"merge_exists", "merge_current", "merge_diff",
                   "merge_delete_removed", "merge_delete_replaced",
                   "merge_insert", "merge_copy", "merge_rename"}

----------------------------------------------------------------------------
(* Process and environment *)

\* the process is killed, or an exception no handler catches ends it
Crash ==
    /\ pc \notin {"idle", "done"}
    /\ merge_result' = IF InMerge THEN "crashed" ELSE merge_result
    /\ Return("crashed")
    /\ UNCHANGED <<Query, Files, Env, History, cmd, strategy, date_list,
                   diff_file_list, downloaded_files, csv_files, idx, current,
                   diff, listing, fetches>>

\* the process has exited; the next command starts from the files alone
Exit ==
    /\ pc = "done"
    /\ pc' = "idle"
    /\ cmd' = "none"
    /\ result' = "none"
    /\ parquet0' = NoFile
    /\ metadata0' = NoMetadata
    /\ ClearLocals
    /\ UNCHANGED <<Query, Files, Env>>

\* midnight
Tick ==
    /\ pc = "idle"
    /\ today < MaxDay
    /\ today' = today + 1
    /\ UNCHANGED <<Query, Files, catalog, History, pc, cmd, result, Locals>>

\* the registry publishes the diff file of a day that has come: a new first
\* row of the page
Publish ==
    /\ pc = "idle"
    /\ \E d \in 0..today :
         /\ \A i \in 1..Len(catalog) : catalog[i].date < d
         /\ catalog' = <<Entry(d)>> \o catalog
    /\ UNCHANGED <<Query, Files, today, History, pc, cmd, result, Locals>>

----------------------------------------------------------------------------
(* The system: nothing on disk, then any sequence of commands *)

Init ==
    /\ parquet = NoFile
    /\ tmp = NoFile
    /\ metadata = NoMetadata
    /\ today = 0
    /\ catalog = <<>>
    /\ pc = "idle"
    /\ cmd = "none"
    /\ strategy = "none"
    /\ date_list = <<>>
    /\ diff_file_list = <<>>
    /\ downloaded_files = <<>>
    /\ csv_files = <<>>
    /\ idx = 0
    /\ current = <<>>
    /\ diff = <<>>
    /\ merge_result = "none"
    /\ result = "none"
    /\ listing = <<>>
    /\ fetches = 0
    /\ parquet0 = NoFile
    /\ metadata0 = NoMetadata
    /\ argv = NoArgs
    /\ shown = Nothing

Merge ==
    \/ MergeExists
    \/ MergeLoadCurrent
    \/ MergeLoadDiff
    \/ MergeDeleteRemoved
    \/ MergeDeleteReplaced
    \/ MergeInsert
    \/ MergeCopy
    \/ MergeRename

Next ==
    \/ InitCommand
    \/ \E force_full \in BOOLEAN, ok \in BOOLEAN : UpdateCommand(force_full, ok)
    \/ InitDownload
    \/ InitCheck
    \/ InitCopy
    \/ InitMeta
    \/ UpdateFetch
    \/ UpdateDownload
    \/ UpdateCheck
    \/ Merge
    \/ UpdateFinish
    \/ Crash
    \/ Exit
    \/ Tick
    \/ Publish

Spec == Init /\ [][Next]_vars

----------------------------------------------------------------------------
(* The selector on its own: any files, any listing, one update command *)

\* the listing rows of the days lo..hi, oldest first
Range(lo, hi) ==
    IF lo > hi THEN <<>> ELSE [i \in 1..(hi - lo + 1) |-> Entry(lo + i - 1)]

StratValues ==
    {NoKey, Text} \cup {IsoDate(d) : d \in 0..StratMaxBase}
                  \cup {IsoDateTime(d) : d \in 0..StratMaxBase}

StratMetadata ==
    {NoMetadata, CorruptMetadata} \cup
    {JsonMetadata([EmptyDict EXCEPT !.full_update_date = f, !.last_diff_date = l]) :
        f \in StratValues, l \in StratValues}

StratDays == (0..(StratMaxLo + 1)) \cup ((StratMaxDay - StratSpan)..StratMaxDay)

Reverse(s) == [i \in 1..Len(s) |-> s[Len(s) + 1 - i]]

\* listing pages: the days lo..hi, oldest first or newest first
StratPages ==
    LET ranges == {Range(lo, hi) : lo \in 0..StratMaxLo, hi \in StratDays}
    IN  ranges \cup {Reverse(r) : r \in ranges}

InitStrategy ==
    /\ parquet \in {NoFile, Table(<<>>)}
    /\ tmp = NoFile
    /\ metadata \in StratMetadata
    /\ today \in StratDays
    /\ catalog \in StratPages
    /\ pc = "idle"
    /\ cmd = "none"
    /\ strategy = "none"
    /\ date_list = <<>>
    /\ diff_file_list = <<>>
    /\ downloaded_files = <<>>
    /\ csv_files = <<>>
    /\ idx = 0
    /\ current = <<>>
    /\ diff = <<>>
    /\ merge_result = "none"
    /\ result = "none"
    /\ listing = <<>>
    /\ fetches = 0
    /\ parquet0 = NoFile
    /\ metadata0 = NoMetadata
    /\ argv = NoArgs
    /\ shown = Nothing

NextStrategy == \E ok \in BOOLEAN : UpdateCommand(FALSE, ok)

SpecStrategy == InitStrategy /\ [][NextStrategy]_vars

----------------------------------------------------------------------------
(* The merge on its own: any snapshot, any batch of diff files *)

SnapRows == {Row(n, "01", v) : n \in 1..MaxNum, v \in 1..MaxVal}

RECURSIVE SeqsUpTo(_, _)
\* the sequences over S of length at most n
SeqsUpTo(S, n) ==
    IF n = 0 THEN {<<>>}
    ELSE LET shorter == SeqsUpTo(S, n - 1)
         IN  shorter \cup {Append(q, x) : q \in shorter, x \in S}

MergeSnapshots == {Table(q) : q \in SeqsUpTo(SnapRows, MaxSnapRows)}

\* the downloaded files of a run: file i is the diff of day i
MergeBatches ==
    LET payloads == SeqsUpTo(Payloads(Rows(MaxNum, MaxVal)), MaxBatch)
    IN  {[i \in 1..Len(q) |-> [date |-> i, rows |-> q[i]]] :
            q \in payloads \ {<<>>}}

InitMerge ==
    /\ parquet \in MergeSnapshots \cup {NoFile, PartialFile}
    /\ tmp = NoFile
    /\ metadata = JsonMetadata(FreshMetadata(0))
    /\ today = MaxBatch
    /\ catalog = Range(1, MaxBatch)
    /\ pc = "merge_exists"
    /\ cmd = "update"
    /\ strategy = "diff"
    /\ downloaded_files \in MergeBatches
    /\ date_list = [i \in 1..Len(downloaded_files) |-> i]
    /\ diff_file_list = SortDesc(catalog)
    /\ csv_files = <<>>
    /\ idx = Len(date_list)
    /\ current = <<>>
    /\ diff = <<>>
    /\ merge_result = "none"
    /\ result = "none"
    /\ listing = SortDesc(catalog)
    /\ fetches = 1
    /\ parquet0 = parquet
    /\ metadata0 = metadata
    /\ argv = NoArgs
    /\ shown = Nothing

NextMerge == Merge \/ Crash

SpecMerge == InitMerge /\ [][NextMerge]_vars

----------------------------------------------------------------------------
(* search, lookup, status and main's dispatch.  A text is a sequence of     *)
(* one-character strings; a search term and the name and address of a row   *)
(* are numbers, and a row matches a term when its val is the term.          *)

\* rows of the largest snapshot of the query model
MaxRows == 46
\* largest --limit and --page of the query model
MaxLimit == 20
MaxPage == 4
\* longest lookup argument of the query model
MaxTextLen == 3

\* main: limit = 20, page = 1
DEFAULT_LIMIT == 20
DEFAULT_PAGE == 1

Formats == {"table", "csv", "json"}

\* str.startswith
startswith(text, prefix) ==
    /\ Len(text) >= Len(prefix)
    /\ SubSeq(text, 1, Len(prefix)) = prefix

NormalizeNumber_always_prefixed(number) == <<"T">> \o number

\* if not number.startswith("T"): number = "T" + number
NormalizeNumber(number) ==
    IF ~startswith(number, <<"T">>) THEN <<"T">> \o number ELSE number

\* a message is printed only with the table format
Message(kind, output_format, total_pages, key) ==
    IF output_format = "table" THEN Shown(kind, <<>>, total_pages, key)
                               ELSE Shown("nothing", <<>>, 0, key)

\* "name" LIKE '%query%' OR "address" LIKE '%query%'
Matching(rows, query) == LET like(r) == r.val = query IN SelectSeq(rows, like)

\* LIMIT limit OFFSET offset
LimitOffset(rows, limit, offset) ==
    IF offset >= Len(rows) THEN <<>>
    ELSE SubSeq(rows, offset + 1,
                IF offset + limit < Len(rows) THEN offset + limit ELSE Len(rows))

TotalPages_rounded_down(total_count, limit) == total_count \div limit

\* (total_count + limit - 1) // limit
TotalPages(total_count, limit) == (total_count + limit - 1) \div limit

search_by_name(pq, query, limit, page, output_format) ==
    IF ~exists(pq) THEN Shown("uninitialized", <<>>, 0, <<>>)
    ELSE IF pq.kind # "table" THEN Shown("error", <<>>, 0, <<>>)
    ELSE LET matching == Matching(pq.rows, query)
             total_count == Len(matching)
             offset == (page - 1) * limit
             total_pages == TotalPages(total_count, limit)
         IN  IF total_count = 0
             THEN Message("not_found", output_format, 0, <<>>)
             ELSE IF page < 1
             THEN Message("page_below_one", output_format, 0, <<>>)
             ELSE IF offset >= total_count
             THEN Message("out_of_range", output_format, total_pages, <<>>)
             ELSE Shown("rows", LimitOffset(matching, limit, offset),
                        IF output_format = "table" THEN total_pages ELSE 0,
                        <<>>)

lookup_by_number(pq, number, output_format) ==
    IF ~exists(pq) THEN Shown("uninitialized", <<>>, 0, <<>>)
    ELSE LET key == NormalizeNumber(number)
             is(r) == r.registratedNumber = key
         IN  IF pq.kind # "table" THEN Shown("error", <<>>, 0, key)
             ELSE LET found == SelectSeq(pq.rows, is)
                  IN  IF found = <<>>
                      THEN Message("not_found", output_format, 0, key)
                      ELSE Shown("record", <<Head(found)>>, 0, key)

show_status(pq) ==
    IF ~exists(pq) THEN Shown("uninitialized", <<>>, 0, <<>>)
                   ELSE Shown("status", <<>>, 0, <<>>)

QueryFrame == <<Files, Env, History, Locals>>

\* main: "search": the arguments are checked, then search_by_name is called
\* and what it returns is not looked at
SearchCommand(a) ==
    /\ pc = "idle"
    /\ cmd' = "search"
    /\ argv' = a
    /\ IF \/ ~a.given \/ ~a.options
          \/ a.limit < 1 \/ a.page < 1
          \/ a.output_format \notin Formats
       THEN shown' = Shown("usage", <<>>, 0, <<>>) /\ Return("usage")
       ELSE /\ shown' = search_by_name(parquet, a.query, a.limit, a.page,
                                       a.output_format)
            /\ Return("none")
    /\ UNCHANGED QueryFrame

\* main: "lookup"
LookupCommand(a) ==
    /\ pc = "idle"
    /\ cmd' = "lookup"
    /\ argv' = a
    /\ IF ~a.given \/ ~a.options \/ a.output_format \notin Formats
       THEN shown' = Shown("usage", <<>>, 0, <<>>) /\ Return("usage")
       ELSE /\ shown' = lookup_by_number(parquet, a.number, a.output_format)
            /\ Return("none")
    /\ UNCHANGED QueryFrame

\* main: "status"
StatusCommand ==
    /\ pc = "idle"
    /\ cmd' = "status"
    /\ shown' = show_status(parquet)
    /\ Return("none")
    /\ UNCHANGED <<argv, QueryFrame>>

\* main: "--version", "-v"
VersionCommand ==
    /\ pc = "idle"
    /\ cmd' = "version"
    /\ shown' = Shown("version", <<>>, 0, <<>>)
    /\ Return("none")
    /\ UNCHANGED <<argv, QueryFrame>>

\* main: no command, or a command main does not know
UnknownCommand ==
    /\ pc = "idle"
    /\ cmd' = "unknown"
    /\ shown' = Shown("usage", <<>>, 0, <<>>)
    /\ Return("usage")
    /\ UNCHANGED <<argv, QueryFrame>>

\* the exit code of the process whose command has returned: sys.exit(1) on
\* an argument error and when init_data or update_data did not return True
\* (a process that died exits non-zero as well), else the end of main
ExitCode ==
    CASE result = "usage" -> 1
      [] cmd \in {"init", "update"} -> IF result = "true" THEN 0 ELSE 1
      [] OTHER -> 0

----------------------------------------------------------------------------
(* The query commands on their own: any snapshot, one command *)

DigitChars == <<"0", "1", "2", "3", "4", "5", "6", "7", "8", "9">>

RECURSIVE DigitText(_)
\* the decimal digits of a number
DigitText(i) ==
    IF i < 10 THEN <<DigitChars[i + 1]>>
    ELSE DigitText(i \div 10) \o <<DigitChars[(i % 10) + 1]>>

\* the registration number of row i: "T" and digits
RegText(i) == <<"T">> \o DigitText(i)

\* a snapshot of n rows: the first row has another name than the rest
QueryRows(n) == [i \in 1..n |-> Row(RegText(i), "01", IF i = 1 THEN 2 ELSE 1)]

QuerySnapshots == {NoFile, PartialFile} \cup {Table(QueryRows(n)) : n \in 0..MaxRows}

QueryTerms == {1, 2, 3}

SearchArgs ==
    {Args(TRUE, q, <<>>, l, p, f, TRUE) :
        q \in QueryTerms, l \in 0..MaxLimit, p \in 0..MaxPage,
        f \in Formats \cup {"xml"}}
    \cup {Args(g, 1, <<>>, DEFAULT_LIMIT, DEFAULT_PAGE, "table", o) :
            g \in BOOLEAN, o \in BOOLEAN}

NumberTexts == SeqsUpTo({"T", "t", "1", "2"}, MaxTextLen)

LookupArgs ==
    {Args(TRUE, 0, t, 0, 0, f, TRUE) : t \in NumberTexts, f \in Formats \cup {"xml"}}
    \cup {Args(g, 0, <<"1">>, 0, 0, "table", o) : g \in BOOLEAN, o \in BOOLEAN}

InitQuery ==
    /\ parquet \in QuerySnapshots
    /\ tmp = NoFile
    /\ metadata = NoMetadata
    /\ today = 0
    /\ catalog = <<>>
    /\ pc = "idle"
    /\ cmd = "none"
    /\ strategy = "none"
    /\ date_list = <<>>
    /\ diff_file_list = <<>>
    /\ downloaded_files = <<>>
    /\ csv_files = <<>>
    /\ idx = 0
    /\ current = <<>>
    /\ diff = <<>>
    /\ merge_result = "none"
    /\ result = "none"
    /\ listing = <<>>
    /\ fetches = 0
    /\ parquet0 = parquet
    /\ metadata0 = NoMetadata
    /\ argv = NoArgs
    /\ shown = Nothing

NextQuery ==
    \/ \E a \in SearchArgs : SearchCommand(a)
    \/ \E a \in LookupArgs : LookupCommand(a)
    \/ StatusCommand
    \/ VersionCommand
    \/ UnknownCommand

SpecQuery == InitQuery /\ [][NextQuery]_vars

----------------------------------------------------------------------------
(* Properties of the Update Strategy Selector (SpecStrategy) *)

\* an update command without --full has chosen its strategy
Selected == pc # "idle" /\ cmd = "update" /\ strategy # "none"

MetaLast == metadata0.dict.last_diff_date
MetaFull == metadata0.dict.full_update_date

\* the metadata the command found gives a baseline date
HasBaseline ==
    /\ metadata0.file = "json"
    /\ IF MetaLast.fmt # "nokey" THEN MetaLast.fmt = "date"
                                 ELSE MetaFull.fmt \in {"date", "datetime"}

\* last_diff_date if present, else the calendar date of full_update_date
BaselineDay == IF MetaLast.fmt # "nokey" THEN MetaLast.day ELSE MetaFull.day

\* the metadata is absent, unreadable or holds neither date
NoDates ==
    \/ metadata0.file # "json"
    \/ MetaLast.fmt = "nokey" /\ MetaFull.fmt = "nokey"

CatalogDates == {catalog[i].date : i \in 1..Len(catalog)}

\* the catalog dates strictly after the baseline and on or before today
Qualifying == {d \in CatalogDates : BaselineDay < d /\ d <= today}

Elements(s) == {s[i] : i \in 1..Len(s)}

IsAscending(s) == \A i \in 1..(Len(s) - 1) : s[i] < s[i + 1]

\* C1: with no snapshot file the selector returns full whatever the metadata
\* and the diff catalog hold, and update then runs the full rebuild
C1_NoSnapshotIsFull ==
    (Selected /\ ~exists(parquet0)) =>
        (strategy = "full" /\ date_list = <<>> /\ pc = "init_download")

C1_Witness ==
    /\ Selected /\ ~exists(parquet0)
    /\ HasBaseline /\ Qualifying # {}
    /\ pc = "init_download"

\* C2: with a snapshot, a baseline B and a fetched catalog holding 1..40 dates
\* d with B < d <= today, the selector returns diff with exactly those dates
\* in ascending order
C2_DiffDatesExact ==
    (/\ Selected /\ exists(parquet0) /\ HasBaseline /\ listing # <<>>
     /\ Cardinality(Qualifying) \in 1..MAX_DIFF_DATES)
    => (/\ strategy = "diff"
        /\ Elements(date_list) = Qualifying
        /\ IsAscending(date_list))

C2_Witness ==
    /\ Selected /\ exists(parquet0) /\ HasBaseline
    /\ strategy = "diff" /\ Len(date_list) = 3
    /\ \E d \in CatalogDates : d <= BaselineDay
    /\ \E d \in CatalogDates : d > today

\* C3: with a snapshot and a baseline, more than 40 qualifying catalog dates
\* give full, and 1..40 of them give diff
C3_CeilingIsForty ==
    (Selected /\ exists(parquet0) /\ HasBaseline /\ listing # <<>>) =>
        /\ Cardinality(Qualifying) > MAX_DIFF_DATES =>
               (strategy = "full" /\ pc = "init_download")
        /\ Cardinality(Qualifying) \in 1..MAX_DIFF_DATES =>
               (strategy = "diff" /\ pc = "update_fetch")

C3_Witness ==
    /\ Selected /\ exists(parquet0) /\ HasBaseline
    /\ Cardinality(Qualifying) = MAX_DIFF_DATES + 1
    /\ strategy = "full"

\* C4: with a snapshot and a baseline, a failed or empty catalog fetch and a
\* catalog without a qualifying date both give skip; update then reports
\* success and leaves the snapshot and the metadata as they were
C4_NothingToApplyIsSkip ==
    (/\ Selected /\ exists(parquet0) /\ HasBaseline
     /\ (listing = <<>> \/ Qualifying = {}))
    => (/\ strategy = "skip"
        /\ pc = "done" /\ result = "true"
        /\ parquet = parquet0 /\ metadata = metadata0)

C4_Witness ==
    /\ Selected /\ exists(parquet0) /\ HasBaseline
    /\ listing # <<>> /\ Qualifying = {}
    /\ strategy = "skip" /\ result = "true"

\* C5: with a snapshot, metadata that is absent, unreadable or without either
\* date gives full with no catalog fetch; otherwise the catalog is fetched and
\* the decision is taken against last_diff_date if present, else against the
\* date of full_update_date
C5_BaselineChoice ==
    (Selected /\ exists(parquet0)) =>
        /\ NoDates => (strategy = "full" /\ fetches = 0)
        /\ HasBaseline =>
              /\ fetches = 1
              /\ strategy = "diff" => Elements(date_list) = Qualifying
              /\ strategy = "skip" => (listing = <<>> \/ Qualifying = {})
              /\ strategy = "full" => Cardinality(Qualifying) > MAX_DIFF_DATES

C5_Witness ==
    /\ Selected /\ exists(parquet0)
    /\ metadata0.file = "json"
    /\ MetaLast.fmt = "nokey" /\ MetaFull.fmt = "datetime"
    /\ strategy = "diff" /\ fetches = 1

----------------------------------------------------------------------------
(* Properties of the Diff Merge Engine (SpecMerge) *)

\* merge_diff_data has returned True and update_data has not gone on yet
Merged == pc = "update_finish" /\ merge_result = "true"

\* the places <<file, line>> of the diff rows of the run
BatchEntries ==
    UNION {{<<i, j>> : j \in 1..Len(downloaded_files[i].rows)} :
              i \in 1..Len(downloaded_files)}

BatchRow(e) == downloaded_files[e[1]].rows[e[2]]

EntriesOf(n) == {e \in BatchEntries : BatchRow(e).registratedNumber = n}

\* each registration number occurs in at most one diff row of the run
OncePerNumber == \A n \in 1..MaxNum : Cardinality(EntriesOf(n)) <= 1

RowsOf(t, n) == LET isN(r) == r.registratedNumber = n IN SelectSeq(t, isN)

\* C6: when each registration number occurs in one diff row, a successful
\* merge leaves no row for a number with code "21", exactly the diff row for a
\* number with code "01" or "11", and the rows of the numbers the batch does
\* not name as they were
C6_MergeCorrect ==
    (Merged /\ OncePerNumber) =>
        \A n \in 1..MaxNum :
            IF EntriesOf(n) = {}
            THEN RowsOf(parquet.rows, n) = RowsOf(parquet0.rows, n)
            ELSE LET r == BatchRow(CHOOSE e \in EntriesOf(n) : TRUE)
                 IN  /\ r.process = "21" => RowsOf(parquet.rows, n) = <<>>
                     /\ r.process \in {"01", "11"} =>
                            RowsOf(parquet.rows, n) = <<r>>

C6_Witness ==
    /\ Merged /\ OncePerNumber
    /\ \E n \in 1..MaxNum :
         /\ EntriesOf(n) # {}
         /\ BatchRow(CHOOSE e \in EntriesOf(n) : TRUE).process = "01"
         /\ RowsOf(parquet0.rows, n) # <<>>
         /\ RowsOf(parquet0.rows, n) # RowsOf(parquet.rows, n)
    /\ \E n \in 1..MaxNum :
         /\ EntriesOf(n) # {}
         /\ BatchRow(CHOOSE e \in EntriesOf(n) : TRUE).process = "21"
         /\ RowsOf(parquet0.rows, n) # <<>>

\* C7: every snapshot a sequence of full rebuilds and diff merges produces
\* holds at most one row per registration number
C7_OneRowPerNumber ==
    parquet.kind = "table" =>
        \A n \in Numbers(parquet.rows) : CountOf(parquet.rows, n) <= 1

\* the two diff files of the run each hold one row, both for number n
SameNumberTwice(n) ==
    /\ Len(downloaded_files) = 2
    /\ \A i \in 1..2 :
         /\ Len(downloaded_files[i].rows) = 1
         /\ downloaded_files[i].rows[1].registratedNumber = n
    /\ downloaded_files[1].date < downloaded_files[2].date

IsUpsert(r) == r.process \in {"01", "11"}

\* C8: when two diff files of different dates of one run name the same
\* registration number, the snapshot reflects the later instruction
C8_LaterSupersedes ==
    Merged =>
        \A n \in 1..MaxNum :
            SameNumberTwice(n) =>
                LET first == downloaded_files[1].rows[1]
                    last == downloaded_files[2].rows[1]
                IN  /\ (IsUpsert(first) /\ last.process = "21") =>
                           RowsOf(parquet.rows, n) = <<>>
                    /\ (first.process = "21" /\ IsUpsert(last)) =>
                           RowsOf(parquet.rows, n) = <<last>>
                    /\ (IsUpsert(first) /\ IsUpsert(last)) =>
                           RowsOf(parquet.rows, n) = <<last>>

\* C9: while the merge runs, and after it failed at any step or the process
\* died in it, PARQUET_FILE is the file the command found; a failed merge
\* makes update report failure
C9_MergeFailureKeepsSnapshot ==
    /\ (InMerge \/ merge_result \in {"false", "crashed"}) => parquet = parquet0
    /\ merge_result = "false" => (pc = "done" /\ result = "false")

C9_Witness ==
    /\ merge_result = "crashed"
    /\ parquet0.kind = "table"
    /\ tmp.kind = "table" /\ tmp.rows # parquet0.rows
    /\ parquet = parquet0

----------------------------------------------------------------------------
(* Properties of the system (Spec) *)

\* C10: a full rebuild that fails during the load or the write of the new
\* artifact leaves the snapshot that existed at the canonical path untouched
C10_RebuildFailureKeepsSnapshot ==
    [][(pc = "init_copy" /\ pc' = "done" /\ result' = "false" /\ exists(parquet))
         => parquet' = parquet]_vars

\* a command is running or has just returned
Running == pc # "idle"

\* C11: a reader that opens PARQUET_FILE at any moment of a command that found
\* no half-written file there never finds a half-written file
C11_ReaderSeesCompleteSnapshot ==
    (Running /\ parquet0.kind # "partial") => parquet.kind # "partial"

\* update has applied a diff batch and reported success
DiffDone == pc = "done" /\ cmd = "update" /\ strategy = "diff" /\ result = "true"

\* the dates of the diff files the run downloaded and merged
DownloadedDates == {downloaded_files[i].date : i \in 1..Len(downloaded_files)}

MaxOf(S) == CHOOSE x \in S : \A y \in S : y <= x

\* C12: after a successful diff update that wrote the metadata, last_diff_date
\* is the latest date among the diff files the run downloaded and merged
C12_LastDiffDateIsLastApplied ==
    (DiffDone /\ metadata.file = "json" /\ metadata # metadata0) =>
        metadata.dict.last_diff_date = IsoDate(MaxOf(DownloadedDates))

\* the command returns False and the files are as it found them
FailsUnchanged ==
    /\ pc' = "done" /\ result' = "false"
    /\ parquet' = parquet0 /\ metadata' = metadata0

\* the step is not the death of the process
NoCrash == result' # "crashed"

\* C13: both download loops go through every item whatever fails; when the
\* loop ends with no payload the command fails with the snapshot and the
\* metadata as they were, otherwise the build or the merge runs, and it takes
\* exactly the payloads that did download
C13_DownloadFailureTolerated ==
    [][/\ (pc = "init_download" /\ pc' # "init_download" /\ NoCrash) =>
             /\ idx = NUM_FULL_FILES
             /\ IF csv_files = <<>> THEN FailsUnchanged ELSE pc' = "init_copy"
       /\ (pc = "update_download" /\ pc' # "update_download" /\ NoCrash) =>
             /\ idx = Len(date_list)
             /\ IF downloaded_files = <<>> THEN FailsUnchanged
                                          ELSE pc' = "merge_exists"
       /\ pc' = "init_meta" => parquet' = Table(read_csv(csv_files))
       /\ pc' = "merge_delete_removed" => diff' = read_csv(downloaded_files)
      ]_vars

\* a merge went through on the one payload of a run of two dates
C13_Witness ==
    /\ pc = "update_finish"
    /\ Len(date_list) = 2 /\ Len(downloaded_files) = 1
    /\ parquet = Table(InsertUpserts(DeleteReplaced(DeleteRemoved(
                     parquet0.rows, downloaded_files[1].rows),
                     downloaded_files[1].rows), downloaded_files[1].rows))

\* init, update --full or update with strategy full has reported success
RebuildDone == pc = "done" /\ result = "true" /\ strategy \in {"none", "full"}

\* day 0 is 31 December and day 1 is 1 January: the month before a day of
\* January ends on day 0, the month before 31 December 31 days earlier
LastDayOfPreviousMonth(d) == IF d >= 1 THEN 0 ELSE 0 - DayOfMonth(0)

\* C14: after a successful full rebuild the metadata file holds
\* full_update_date of the rebuild's time, data_as_of the last day of the
\* month before the rebuild's date, and no last_diff_date
C14_FreshMetadataAfterRebuild ==
    RebuildDone =>
        /\ metadata.file = "json"
        /\ metadata.dict.full_update_date = IsoDateTime(today)
        /\ metadata.dict.data_as_of = IsoDate(LastDayOfPreviousMonth(today))
        /\ metadata.dict.last_diff_date = NoKey

\* C15: a command that reports success after a rebuild leaves the fresh
\* record in the metadata file, one that reports success after a diff merge
\* leaves a record whose last_diff_date is a date of the run, a command that
\* reports failure leaves the metadata file as it found it, and the metadata
\* file comes into being only with a successful rebuild
C15_MetadataWrittenOnSuccess ==
    [][/\ RebuildDone' => metadata' = JsonMetadata(FreshMetadata(today))
       /\ DiffDone' =>
             /\ metadata'.file = "json"
             /\ metadata'.dict.last_diff_date.fmt = "date"
             /\ metadata'.dict.last_diff_date.day \in Elements(date_list)
       /\ (pc' = "done" /\ result' = "false") => metadata' = metadata0
       /\ (metadata.file = "absent" /\ metadata'.file # "absent") => RebuildDone'
      ]_vars

----------------------------------------------------------------------------
(* Properties of the query commands (SpecQuery) *)

\* search_by_name ran on a complete snapshot
SearchRan ==
    pc = "done" /\ cmd = "search" /\ result = "none" /\ parquet.kind = "table"

\* the number of records of the snapshot that match the search term
MatchCount ==
    Cardinality({i \in 1..Len(parquet.rows) : parquet.rows[i].val = argv.query})

\* the least k with k * L >= n, for n > 0 and L >= 1
Ceil(n, L) == CHOOSE k \in 1..n : k * L >= n /\ (k - 1) * L < n

Min(a, b) == IF a <= b THEN a ELSE b

\* a page within range shows min(L, n - (p-1)*L) records
PageShown(n, L, p) ==
    /\ shown.kind = "rows"
    /\ Len(shown.rows) = Min(L, n - (p - 1) * L)

\* C17 as stated: with n > 0 matches and limit L, page p <= ceil(n/L) shows
\* min(L, n - (p-1)*L) records, and every page p > ceil(n/L) is rejected
\* with the message that reports ceil(n/L) pages
C17_PaginationAsClaimed ==
    (SearchRan /\ MatchCount > 0) =>
        LET n == MatchCount
            L == argv.limit
            p == argv.page
        IN  /\ p <= Ceil(n, L) => PageShown(n, L, p)
            /\ p > Ceil(n, L) =>
                  /\ shown.kind = "out_of_range"
                  /\ shown.total_pages = Ceil(n, L)

\* C17: with n > 0 matches and limit L, page p <= ceil(n/L) shows
\* min(L, n - (p-1)*L) records; a page p > ceil(n/L) shows no record, and
\* the message that reports ceil(n/L) pages is printed with the table format
\* only: with csv and json nothing is written
C17_Pagination ==
    (SearchRan /\ MatchCount > 0) =>
        LET n == MatchCount
            L == argv.limit
            p == argv.page
        IN  /\ p <= Ceil(n, L) => PageShown(n, L, p)
            /\ p > Ceil(n, L) =>
                  IF argv.output_format = "table"
                  THEN /\ shown.kind = "out_of_range"
                       /\ shown.rows = <<>>
                       /\ shown.total_pages = Ceil(n, L)
                  ELSE shown = Nothing

\* 45 matches, limit 20: page 4 is rejected and 3 pages are reported
C17_Witness ==
    /\ SearchRan
    /\ MatchCount = 45 /\ argv.limit = 20 /\ argv.page = 4
    /\ shown.kind = "out_of_range" /\ shown.total_pages = 3

\* lookup_by_number ran on a snapshot
LookupRan ==
    pc = "done" /\ cmd = "lookup" /\ result = "none" /\ exists(parquet)

\* a non-empty text of decimal digits
IsDigits(text) ==
    /\ text # <<>>
    /\ \A i \in 1..Len(text) : \E d \in 1..Len(DigitChars) : text[i] = DigitChars[d]

\* C18: a number given as digits and the same number given with the prefix
\* "T" are both looked up under the key "T" + digits; an argument that starts
\* with "T" is the key as it is, and normalizing a key gives the key again
C18_NormalizedKey ==
    LookupRan =>
        LET number == argv.number
        IN  /\ IsDigits(number) => shown.key = <<"T">> \o number
            /\ (startswith(number, <<"T">>) /\ IsDigits(Tail(number))) =>
                  shown.key = <<"T">> \o Tail(number)
            /\ startswith(number, <<"T">>) => shown.key = number
            /\ NormalizeNumber(shown.key) = shown.key
            /\ shown.kind = "record" =>
                  shown.rows[1].registratedNumber = shown.key

\* the digits 12 find the record of T12
C18_Witness ==
    /\ LookupRan
    /\ argv.number = <<"1", "2">>
    /\ shown.kind = "record"
    /\ shown.key = <<"T", "1", "2">>

\* what the command met is a failure the user is told of: an argument
\* error, init_data or update_data returning False, or a search or lookup
\* without a snapshot
UserFacingFailure ==
    \/ result \in {"usage", "false"}
    \/ cmd \in {"search", "lookup"} /\ ~exists(parquet)

\* C19: a command that has returned exits with 1 when it met an argument
\* error, a failed init or update, or a search or lookup without a snapshot,
\* and with 0 otherwise
C19_ExitCodes ==
    (pc = "done" /\ result # "crashed") =>
        ExitCode = IF UserFacingFailure THEN 1 ELSE 0

----------------------------------------------------------------------------
(* Order of the diff files (SpecMerge) *)

RowSet(t) == {t[i] : i \in 1..Len(t)}

\* the files in the order f gives
Permuted(files, f) == [i \in 1..Len(files) |-> files[f[i]]]

\* C20: the rows a successful merge wrote are, as a set, the rows the merge
\* gives for every other order of the same diff files
C20_FileOrderIrrelevant ==
    Merged =>
        \A f \in Permutations(1..Len(downloaded_files)) :
            RowSet(MergeRows(parquet0.rows, Permuted(downloaded_files, f)))
                = RowSet(parquet.rows)

\* two files whose rows the merge inserts: the other order of the files
\* gives another sequence of rows
C20_Witness ==
    /\ Merged
    /\ Len(downloaded_files) = 2
    /\ parquet0.rows # <<>>
    /\ parquet.rows # MergeRows(parquet0.rows, Reverse(downloaded_files))

----------------------------------------------------------------------------
(* Repeated updates (SpecLive): update is invoked again and again on the   *)
(* files earlier commands left.  The listing fetch and the downloads may   *)
(* fail, and succeed again and again when tried again and again; nothing   *)
(* else of the environment fails (COPY, rename and the metadata write go   *)
(* through, the process is not killed), so a step raises only when the     *)
(* files on disk make it raise.                                            *)

\* update without --full, with a listing fetch that succeeds
UpdateRuns == UpdateCommand(FALSE, TRUE)

FetchSucceeds ==
    UpdateFetch /\ diff_file_list' = fetch_sabun_file_list(catalog, TRUE)

DownloadSucceeds == UpdateDownload /\ downloaded_files' # downloaded_files

InitDownloadSucceeds == InitDownload /\ csv_files' # csv_files

InitCopySucceeds == InitCopy /\ pc' = "init_meta"

InitMetaWritten ==
    InitMeta /\ result' = "true"
             /\ metadata' = JsonMetadata(FreshMetadata(today))

\* a step of the merge that does not raise; MergeExists and MergeLoadCurrent
\* raise when PARQUET_FILE is missing or cannot be read
MergeGoesOn ==
    \/ MergeExists
    \/ MergeLoadCurrent /\ (parquet.kind = "table" => merge_result' # "false")
    \/ MergeLoadDiff /\ merge_result' # "false"
    \/ MergeDeleteRemoved /\ merge_result' # "false"
    \/ MergeDeleteReplaced /\ merge_result' # "false"
    \/ MergeInsert /\ merge_result' # "false"
    \/ MergeCopy /\ merge_result' # "false"
    \/ MergeRename /\ merge_result' # "false"

UpdateFinishWritten ==
    UpdateFinish /\ metadata' = save_metadata(metadata,
        [load_metadata(metadata) EXCEPT
            !.last_diff_date = IsoDate(date_list[Len(date_list)])], "written")

\* the next step of the running command
Step ==
    \/ InitDownload
    \/ InitCheck
    \/ InitCopySucceeds
    \/ InitMetaWritten
    \/ UpdateFetch
    \/ UpdateDownload
    \/ UpdateCheck
    \/ MergeGoesOn
    \/ UpdateFinishWritten
    \/ Exit

LiveFairness ==
    /\ WF_vars(Step)
    /\ SF_vars(UpdateRuns)
    /\ SF_vars(FetchSucceeds)
    /\ SF_vars(DownloadSucceeds)
    /\ SF_vars(InitDownloadSucceeds)

\* what init and update leave at PARQUET_FILE: a snapshot, or the file of a
\* COPY that raised
LiveSnapshots ==
    {PartialFile, Table(<<>>)} \cup {Table(<<r>>) : r \in FullRows}

\* what init and update leave at METADATA_FILE: nothing, a truncated file,
\* the record of a rebuild, or that record with a last_diff_date
LiveMetadata ==
    {NoMetadata, CorruptMetadata}
    \cup {JsonMetadata(FreshMetadata(d)) : d \in Days}
    \cup {JsonMetadata([FreshMetadata(0) EXCEPT !.last_diff_date = IsoDate(d)]) :
            d \in 1..MaxDay}

\* the files as earlier commands left them, on the last day, with the diff
\* files of every day published
InitLive ==
    /\ \/ parquet = NoFile /\ metadata = NoMetadata
       \/ parquet \in LiveSnapshots /\ metadata \in LiveMetadata
    /\ tmp = NoFile
    /\ today = MaxDay
    /\ catalog = Reverse(Range(0, MaxDay))
    /\ pc = "idle"
    /\ cmd = "none"
    /\ strategy = "none"
    /\ date_list = <<>>
    /\ diff_file_list = <<>>
    /\ downloaded_files = <<>>
    /\ csv_files = <<>>
    /\ idx = 0
    /\ current = <<>>
    /\ diff = <<>>
    /\ merge_result = "none"
    /\ result = "none"
    /\ listing = <<>>
    /\ fetches = 0
    /\ parquet0 = NoFile
    /\ metadata0 = NoMetadata
    /\ argv = NoArgs
    /\ shown = Nothing

NextLive ==
    \/ \E ok \in BOOLEAN : UpdateCommand(FALSE, ok)
    \/ InitDownload
    \/ InitCheck
    \/ InitCopySucceeds
    \/ InitMetaWritten
    \/ UpdateFetch
    \/ UpdateDownload
    \/ UpdateCheck
    \/ MergeGoesOn
    \/ UpdateFinishWritten
    \/ Exit

SpecLive == InitLive /\ [][NextLive]_vars /\ LiveFairness

\* a snapshot exists and the selector, given the listing, returns skip
Converged ==
    /\ exists(parquet)
    /\ determine_update_strategy(parquet, metadata, catalog, TRUE,
                                 today).strategy = "skip"

\* C21: under repeated updates whose fetches and downloads succeed again and
\* again the system reaches, from every state, one where a snapshot exists
\* and the selector returns skip
C21_Converges == []<>Converged

----------------------------------------------------------------------------
(* The same batch merged again (SpecMerge) *)

\* C22: merging the downloaded files once more into the snapshot a successful
\* merge wrote gives the rows that snapshot already holds
C22_MergeIdempotent ==
    Merged =>
        RowSet(MergeRows(parquet.rows, downloaded_files)) = RowSet(parquet.rows)

\* a merge that changed the snapshot with a batch that both removes and
\* inserts: the second merge deletes rows the first one wrote
C22_Witness ==
    /\ Merged
    /\ RowSet(parquet.rows) # RowSet(parquet0.rows)
    /\ NumbersWhere(read_csv(downloaded_files), {"21"})
            \cap Numbers(parquet.rows) # {}
    /\ DeleteRemoved(parquet.rows, read_csv(downloaded_files)) # parquet.rows

----------------------------------------------------------------------------
(* The update after a successful run (Spec) *)

\* what the selector returns for the files, listing and date of this state
NextUpdateSelects ==
    determine_update_strategy(parquet, metadata, catalog, TRUE, today).strategy

\* C23: when init, or an update on the full or the diff path, has returned
\* True, an update on the same listing and date selects skip
C23_UpdateAfterSuccessSkips ==
    (RebuildDone \/ DiffDone) => NextUpdateSelects = "skip"

----------------------------------------------------------------------------
(* The baseline over the commands (Spec) *)

\* the metadata file m gives the selector a baseline date
HasBaselineIn(m) ==
    /\ m.file = "json"
    /\ IF m.dict.last_diff_date.fmt # "nokey"
       THEN m.dict.last_diff_date.fmt = "date"
       ELSE m.dict.full_update_date.fmt \in {"date", "datetime"}

\* last_diff_date if present, else the calendar date of full_update_date
BaselineOf(m) ==
    IF m.dict.last_diff_date.fmt # "nokey" THEN m.dict.last_diff_date.day
                                           ELSE m.dict.full_update_date.day

BaselineStep ==
    /\ today <= today'
    /\ HasBaselineIn(metadata') => BaselineOf(metadata') <= today'
    /\ (HasBaselineIn(metadata) /\ HasBaselineIn(metadata')) =>
           BaselineOf(metadata) <= BaselineOf(metadata')
    /\ (~HasBaselineIn(metadata) /\ HasBaselineIn(metadata')) =>
           BaselineOf(metadata') = today'

\* C24: the clock never goes back, and no step gives the metadata a baseline
\* later than the current date or earlier than the baseline it held; a
\* baseline written where none could be read is the current date, so the
\* baseline does not go back across a lost metadata file either
C24_BaselineMonotone == [][BaselineStep]_vars

\* a diff update moved the baseline forward, and a rebuild moved a baseline
\* that was a last_diff_date forward
C24_Witness ==
    /\ pc = "done"
    /\ result = "true"
    /\ HasBaseline
    /\ HasBaselineIn(metadata)
    /\ BaselineDay < BaselineOf(metadata)
    /\ BaselineOf(metadata) <= today
    /\ \/ strategy = "diff"
       \/ strategy \in {"none", "full"} /\ MetaLast.fmt = "date"

----------------------------------------------------------------------------
(* last_diff_date against the rebuild (Spec) *)

\* the metadata file holds full_update_date and last_diff_date
BothDates ==
    /\ metadata.file = "json"
    /\ metadata.dict.full_update_date.fmt = "datetime"
    /\ metadata.dict.last_diff_date.fmt = "date"

LastDiffLaterThanFull ==
    BothDates =>
        metadata.dict.full_update_date.day < metadata.dict.last_diff_date.day

\* the snapshot has just been rebuilt and the metadata file holds a
\* last_diff_date, which is the baseline of the next update
StaleLastDiffDate ==
    /\ RebuildDone
    /\ metadata.file = "json"
    /\ metadata.dict.last_diff_date.fmt = "date"

\* C25: whenever the metadata holds both full_update_date and
\* last_diff_date, last_diff_date is strictly later than the calendar date
\* of full_update_date, and a last_diff_date recorded before a rebuild is
\* not in the metadata file when the rebuild has returned True
C25_LastDiffAfterRebuild == LastDiffLaterThanFull /\ ~StaleLastDiffDate

====
